---- MODULE Spec2Model ----
(***************************************************************************)
(* A model of the StatCan WDS client (src/statcan_wds/_core.py) and of the *)
(* ingestion adapters built on it.                                         *)
(*                                                                         *)
(* Text is modelled as a sequence of one-character strings, so that the    *)
(* joins ('.'.join, the provider's ';'-joined title) and the split         *)
(* (str.split(';')) are computed character by character.  A Python dict is *)
(* a sequence of <<key, value>> pairs with distinct keys, in insertion     *)
(* order.                                                                  *)
(***************************************************************************)
EXTENDS Integers, Sequences, FiniteSets, TLC

VARIABLES
    pc,            \* position of the call being modelled
    series_specs,  \* the compact spec handed to expand_specs / getTableData
    expanded,      \* the Selections (expand_specs' result, buildCoordinates' input)
    metaResp,      \* the provider's answer to getCubeMetadata
    meta,          \* what getCubeMetadata returned to buildCoordinates
    coordinates,   \* buildCoordinates' first result (getVectorIds' input)
    dim_map,       \* buildCoordinates' second result
    vecResp,       \* the provider's answer to getSeriesInfoFromCubePidCoord
    vec_map,       \* getVectorIds' result
    vectorIds,     \* the vector identifiers named in the observation request
    dataResp,      \* the provider's answer to getDataFromVectorByReferencePeriodRange
    final_df,      \* getTableData's result: None, or the rows of the table
    err,           \* the exception that ended the call, or NoError
    calls,         \* the provider endpoints called so far, in order
    mode,          \* ingest_data's mode
    startDate,     \* the first day of the range asked of an adapter
    endDate,       \* the last day of that range
    codes,         \* get_fx_data's codes: the legacy and the current series
    requests,      \* the ranges asked of the sources so far, in order
    loaded         \* the tables load_data has written so far, in order

\* The state of the ingestion layer (src/ingestion).
ingestVars == <<mode, startDate, endDate, codes, requests, loaded>>

vars == <<pc, series_specs, expanded, metaResp, meta, coordinates, dim_map,
          vecResp, vec_map, vectorIds, dataResp, final_df, err, calls,
          mode, startDate, endDate, codes, requests, loaded>>

(***************************************************************************)
(* Bounds of the model.                                                    *)
(***************************************************************************)
MaxVals == 2      \* values in one value list of a compact spec
MaxPos == 2       \* highest dimensionPositionId a cube of the model uses
MaxSels == 2      \* Selections in a direct call of buildCoordinates
MaxCoords == 2    \* Coordinates in a direct call of getVectorIds
MaxObs == 2       \* observations of one vector

(***************************************************************************)
(* Python values.                                                          *)
(***************************************************************************)
\* An exception: its class, its message (abridged), and what a WDS error
\* carries of the provider's item.
Error(kind, msg, status, payload) ==
    [kind |-> kind, msg |-> msg, status |-> status, payload |-> payload]

\* The "object" of a provider item: the cube's dimension list on success,
\* the provider's note otherwise.
Object(dimension, note) == [dimension |-> dimension, note |-> note]
NoObject == Object(<<>>, "")

NoError == Error("NoError", "", "", NoObject)

\* No response received yet.
NoResponse == [status_code |-> 0, isList |-> FALSE, items |-> <<>>]

\* final_df = None, and final_df a DataFrame of the given rows.
NoneDF == [isNone |-> TRUE, rows |-> <<>>]
DataFrame(rows) == [isNone |-> FALSE, rows |-> rows]

Min(a, b) == IF a < b THEN a ELSE b

Range(s) == {s[i] : i \in 1..Len(s)}

\* Sequences over S of length lo..hi.
SeqsOf(S, lo, hi) == UNION {[1..n -> S] : n \in lo..hi}


\* sep.join(parts): the parts with sep between neighbours.
RECURSIVE Join(_, _)
Join(parts, sep) ==
    IF parts = <<>> THEN <<>>
    ELSE IF Len(parts) = 1 THEN parts[1]
    ELSE parts[1] \o sep \o Join(Tail(parts), sep)

\* text.split(c) for a one-character separator c: always at least one part,
\* one more part than there are separators, empty parts kept.
RECURSIVE Split(_, _)
Split(text, c) ==
    IF \A i \in 1..Len(text) : text[i] # c THEN <<text>>
    ELSE LET i == CHOOSE j \in 1..Len(text) :
                      text[j] = c /\ \A k \in 1..(j - 1) : text[k] # c
         IN <<SubSeq(text, 1, i - 1)>> \o Split(SubSeq(text, i + 1, Len(text)), c)

Digit(d) == CASE d = 0 -> "0" [] d = 1 -> "1" [] d = 2 -> "2" [] d = 3 -> "3"
              [] d = 4 -> "4" [] d = 5 -> "5" [] d = 6 -> "6" [] d = 7 -> "7"
              [] d = 8 -> "8" [] d = 9 -> "9"

\* str(n) of a natural number.
RECURSIVE Str(_)
Str(n) == IF n < 10 THEN <<Digit(n)>> ELSE Str(n \div 10) \o <<Digit(n % 10)>>

(***************************************************************************)
(* Python dicts: <<key, value>> pairs, distinct keys, insertion order.     *)
(***************************************************************************)
Keys(d) == [i \in 1..Len(d) |-> d[i][1]]

HasKey(d, k) == \E i \in 1..Len(d) : d[i][1] = k

\* d[k], for a key d has.
Get(d, k) == d[CHOOSE i \in 1..Len(d) : d[i][1] = k][2]

\* d[k] = v: a known key keeps its place, a new key goes last.
DictSet(d, k, v) ==
    IF HasKey(d, k)
    THEN [i \in 1..Len(d) |-> IF d[i][1] = k THEN <<k, v>> ELSE d[i]]
    ELSE Append(d, <<k, v>>)

\* dict(pairs): the pairs inserted left to right.
RECURSIVE DictFrom(_, _)
DictFrom(acc, pairs) ==
    IF pairs = <<>> THEN acc
    ELSE DictFrom(DictSet(acc, pairs[1][1], pairs[1][2]), Tail(pairs))

\* zip(a, b): stops at the shorter of the two.
Zip(a, b) == [i \in 1..Min(Len(a), Len(b)) |-> <<a[i], b[i]>>]

(***************************************************************************)
(* The names of the model.                                                 *)
(***************************************************************************)
Canada == <<"C", "a">>
Quebec == <<"Q", "c">>
Import == <<"I", "m">>
MemberNames == {Canada, Quebec, Import}

DimNames == {"Geography", "Trade"}

(***************************************************************************)
(* expand_specs.  An entry of a compact spec is one single-key dict        *)
(* {k: v}; isList tells whether v is a list (items) or a scalar (item).    *)
(***************************************************************************)
Scalar(k, v) == [k |-> k, isList |-> FALSE, item |-> v, items |-> <<>>]
List(k, vs) == [k |-> k, isList |-> TRUE, item |-> <<>>, items |-> vs]

\* A scalar taken for an empty list.
ValsOfScalarDropped(entry) == entry.items

\* vals = v if isinstance(v, (list, tuple)) else [v]
ValsOf(entry) == IF entry.isList THEN entry.items ELSE <<entry.item>>

\* One round of itertools.product: [x + [y] for x in result for y in pool].
RECURSIVE ProductStep(_, _)
ProductStep(result, pool) ==
    IF result = <<>> THEN <<>>
    ELSE [j \in 1..Len(pool) |-> Append(result[1], pool[j])]
         \o ProductStep(Tail(result), pool)

\* itertools.product(*pools): starts from the one empty combination.
RECURSIVE Product(_, _)
Product(result, pools) ==
    IF pools = <<>> THEN result
    ELSE Product(ProductStep(result, pools[1]), Tail(pools))

expand_specs(series_spec) ==
    LET keys == [i \in 1..Len(series_spec) |-> series_spec[i].k]
        value_lists == [i \in 1..Len(series_spec) |-> ValsOf(series_spec[i])]
        combos == Product(<< <<>> >>, value_lists)
    IN [c \in 1..Len(combos) |-> DictFrom(<<>>, Zip(keys, combos[c]))]

\* The compact specs of the model: entries with pairwise distinct dimension
\* names (one entry per dimension, in any order), each a scalar or a list
\* of up to MaxVals values (repeated values allowed).
SpecEntries ==
    {Scalar(k, v) : k \in DimNames, v \in MemberNames}
    \cup {List(k, vs) : k \in DimNames, vs \in SeqsOf(MemberNames, 0, MaxVals)}

CompactSpecs ==
    {s \in SeqsOf(SpecEntries, 0, Cardinality(DimNames)) :
        \A i, j \in 1..Len(s) : i # j => s[i].k # s[j].k}

\* No FX codes: codes.get("legacy") and codes.get("current") are None.
NoCodes == [isNone |-> TRUE, keys |-> <<>>]

\* The ingestion layer is not running.
IngestionIdle ==
    /\ mode = ""
    /\ startDate = 0
    /\ endDate = 0
    /\ codes = [legacy |-> NoCodes, current |-> NoCodes]
    /\ requests = <<>>
    /\ loaded = <<>>

InitCommon ==
    /\ pc = "start"
    /\ metaResp = NoResponse
    /\ meta = NoObject
    /\ dim_map = <<>>
    /\ vecResp = <<>>
    /\ vec_map = <<>>
    /\ vectorIds = <<>>
    /\ dataResp = <<>>
    /\ final_df = NoneDF
    /\ err = NoError
    /\ calls = <<>>
    /\ IngestionIdle

(***************************************************************************)
(* SpecExpand: a call of expand_specs on any compact spec.                 *)
(***************************************************************************)
InitExpand ==
    /\ series_specs \in CompactSpecs
    /\ expanded = <<>>
    /\ coordinates = <<>>
    /\ InitCommon

ExpandStep(to) ==
    /\ expanded' = expand_specs(series_specs)
    /\ pc' = to
    /\ UNCHANGED <<series_specs, metaResp, meta, coordinates, dim_map, vecResp,
                   vec_map, vectorIds, dataResp, final_df, err, calls>>
    /\ UNCHANGED ingestVars

ExpandCall ==
    /\ pc = "start"
    /\ ExpandStep("done")

NextExpand == ExpandCall

SpecExpand == InitExpand /\ [][NextExpand]_vars

\* The product of the numbers of a sequence.
RECURSIVE ProductOf(_)
ProductOf(ns) == IF ns = <<>> THEN 1 ELSE Head(ns) * ProductOf(Tail(ns))

\* The number of values an entry offers, and its i-th value: a scalar is
\* one value.
ValueCount(entry) == IF entry.isList THEN Len(entry.items) ELSE 1
ValueAt(entry, i) == IF entry.isList THEN entry.items[i] ELSE entry.item

\* The ways to choose one list position per entry of a compact spec.
Choices(spec) ==
    {ch \in [1..Len(spec) -> 1..MaxVals + 1] :
        \A i \in 1..Len(spec) : ch[i] <= ValueCount(spec[i])}

\* The Selection of one choice: the spec's dimension names, in spec order,
\* each with the value at the chosen position of its list.
Pick(spec, ch) == [i \in 1..Len(spec) |-> <<spec[i].k, ValueAt(spec[i], ch[i])>>]

\* C1: expand_specs returns a*b*c*... Selections, the factors being the
\* lengths of the value lists (1 for a scalar, so 0 Selections when a list
\* is empty); every combination of one list element per dimension appears
\* exactly once (as often as it is chosen, when a list repeats a value);
\* each Selection's keys are the spec's dimension names in spec order.
C1_ExpandIsProduct ==
    pc = "done" =>
        LET lens == [i \in 1..Len(series_specs) |-> ValueCount(series_specs[i])]
        IN /\ Len(expanded) = ProductOf(lens)
           /\ \A c \in 1..Len(expanded) :
                  Keys(expanded[c]) = [i \in 1..Len(series_specs) |-> series_specs[i].k]
           /\ \A ch \in Choices(series_specs) :
                  Cardinality({c \in 1..Len(expanded) :
                                  expanded[c] = Pick(series_specs, ch)})
                  = Cardinality({o \in Choices(series_specs) :
                                  Pick(series_specs, o) = Pick(series_specs, ch)})

\* A two-valued list times a scalar times nothing else: two Selections.
C1_Witness ==
    /\ pc = "done"
    /\ Len(series_specs) = 2
    /\ series_specs[1].isList /\ Len(series_specs[1].items) = 2
    /\ series_specs[1].items[1] # series_specs[1].items[2]
    /\ ~series_specs[2].isList
    /\ Len(expanded) = 2

(***************************************************************************)
(* getCubeMetadata.  A response is the HTTP status code and the JSON body: *)
(* isList tells whether the body is a list, items are its items, each with *)
(* a "status" and an "object".                                             *)
(***************************************************************************)
Response(code, isList, items) ==
    [status_code |-> code, isList |-> isList, items |-> items]

Item(status, object) == [status |-> status, object |-> object]

\* A result: the returned value, or the exception raised.
Ok(value) == [ok |-> TRUE, value |-> value, err |-> NoError]
Raise(e) == [ok |-> FALSE, value |-> NoObject, err |-> e]

\* The item-level status check inverted: a failed item is accepted.
getCubeMetadataNoStatusCheck(response) ==
    IF response.status_code >= 400 /\ response.status_code < 600
    THEN Raise(Error("HTTPError", "", "", NoObject))
    ELSE IF ~response.isList \/ response.items = <<>>
    THEN Raise(Error("ValueError", "Unexpected payload", "", NoObject))
    ELSE Ok(response.items[1].object)

\* response.raise_for_status() raises for 4xx and 5xx; then the body must
\* be a non-empty list; then data[0]'s status must be "SUCCESS".
getCubeMetadata(response) ==
    IF response.status_code >= 400 /\ response.status_code < 600
    THEN Raise(Error("HTTPError", "", "", NoObject))
    ELSE IF ~response.isList \/ response.items = <<>>
    THEN Raise(Error("ValueError", "Unexpected payload", "", NoObject))
    ELSE LET item == response.items[1]
         IN IF item.status # "SUCCESS"
            THEN Raise(Error("RuntimeError", "WDS error", item.status, item.object))
            ELSE Ok(item.object)

(***************************************************************************)
(* The cubes of the model.                                                 *)
(***************************************************************************)
Member(name, id) == [memberNameEn |-> name, memberId |-> id]

Dimension(name, pos, members) ==
    [dimensionNameEn |-> name, dimensionPositionId |-> pos, member |-> members]

MembersOf(name) ==
    IF name = "Geography" THEN <<Member(Canada, 1), Member(Quebec, 12)>>
    ELSE <<Member(Import, 3)>>

\* The cube with the dimensions D at the positions f, listed by position.
CubeOf(D, f) ==
    [i \in 1..Cardinality(D) |->
        LET d == CHOOSE x \in D : Cardinality({y \in D : f[y] < f[x]}) = i - 1
        IN Dimension(d, f[d], MembersOf(d))]

\* Every cube over a non-empty set of the dimension names, at pairwise
\* distinct positions 1..MaxPos.
Cubes ==
    {CubeOf(D, f) : <<D, f>> \in
        {<<D, f>> \in (SUBSET DimNames \ {{}}) \X [DimNames -> 1..MaxPos] :
            /\ \A x, y \in D : x # y => f[x] # f[y]
            /\ \A x \in DimNames \ D : f[x] = 1}}

\* What the provider may answer to getCubeMetadata.
MetaResponses ==
    {Response(200, TRUE, <<Item("SUCCESS", Object(cube, ""))>>) : cube \in Cubes}
    \cup {Response(200, TRUE, <<Item("FAILED", Object(<<>>, "Product is invalid"))>>),
          Response(200, TRUE, <<>>),
          Response(200, FALSE, <<>>),
          Response(404, FALSE, <<>>),
          Response(500, TRUE, <<Item("SUCCESS", Object(<<>>, ""))>>)}

(***************************************************************************)
(* buildCoordinates.                                                       *)
(***************************************************************************)
NumSlots == 10

\* A list being built, or None.
Some(slots) == [isNone |-> FALSE, slots |-> slots]
NoCoords == [isNone |-> TRUE, slots |-> <<>>]

\* dim_mapping: {dimensionNameEn: {position, values: {memberNameEn: memberId}}}
DimMapping(md) ==
    DictFrom(<<>>,
        [i \in 1..Len(md.dimension) |->
            LET dim == md.dimension[i]
            IN <<dim.dimensionNameEn,
                 [position |-> dim.dimensionPositionId,
                  values |-> DictFrom(<<>>,
                      [j \in 1..Len(dim.member) |->
                          <<dim.member[j].memberNameEn, dim.member[j].memberId>>])]>>])

\* The 1-based position used as a 0-based index.
PlaceZeroBased(coords, pos, value) == [coords EXCEPT ![pos + 1] = Str(value)]

\* coords[int(pos) - 1] = str(value), for a position 1..10.
Place(coords, pos, value) == [coords EXCEPT ![pos] = Str(value)]

\* The inner loop over one Selection's items: the slots filled so far, or
\* None as soon as a dimension or a member is not found.
RECURSIVE FillSlots(_, _, _)
FillSlots(dim_mapping, items, coords) ==
    IF items = <<>> THEN Some(coords)
    ELSE LET k == items[1][1]
             v == items[1][2]
         IN IF ~HasKey(dim_mapping, k) THEN NoCoords
            ELSE LET dim == Get(dim_mapping, k)
                 IN IF ~HasKey(dim.values, v) THEN NoCoords
                    ELSE FillSlots(dim_mapping, Tail(items),
                                   Place(coords, dim.position, Get(dim.values, v)))

\* Every Selection kept, a failed one as an all-sentinel coordinate.
RECURSIVE CoordinatesKeepFailed(_, _)
CoordinatesKeepFailed(dim_mapping, series_coords) ==
    IF series_coords = <<>> THEN <<>>
    ELSE LET coords == FillSlots(dim_mapping, series_coords[1],
                                 [i \in 1..NumSlots |-> <<"0">>])
         IN <<Join(IF coords.isNone THEN [i \in 1..NumSlots |-> <<"0">>]
                   ELSE coords.slots, <<".">>)>>
            \o CoordinatesKeepFailed(dim_mapping, Tail(series_coords))

\* Each new coordinate put in front of the earlier ones.
RECURSIVE CoordinatesReversed(_, _)
CoordinatesReversed(dim_mapping, series_coords) ==
    IF series_coords = <<>> THEN <<>>
    ELSE LET coords == FillSlots(dim_mapping, series_coords[1],
                                 [i \in 1..NumSlots |-> <<"0">>])
         IN CoordinatesReversed(dim_mapping, Tail(series_coords))
            \o (IF coords.isNone THEN <<>> ELSE <<Join(coords.slots, <<".">>)>>)

\* The outer loop: one dot-joined coordinate per Selection whose slots were
\* all found, in the order of the Selections.
RECURSIVE Coordinates(_, _)
Coordinates(dim_mapping, series_coords) ==
    IF series_coords = <<>> THEN <<>>
    ELSE LET coords == FillSlots(dim_mapping, series_coords[1],
                                 [i \in 1..NumSlots |-> <<"0">>])
         IN (IF coords.isNone THEN <<>> ELSE <<Join(coords.slots, <<".">>)>>)
            \o Coordinates(dim_mapping, Tail(series_coords))

\* {dim: int(v["position"])}
DimMap(dim_mapping) ==
    [i \in 1..Len(dim_mapping) |-> <<dim_mapping[i][1], dim_mapping[i][2].position>>]

\* buildCoordinates' two results for a metadata object.
buildCoordinates(md, series_coords) ==
    LET dim_mapping == DimMapping(md)
    IN [coordinates |-> Coordinates(dim_mapping, series_coords),
        dim_map |-> DimMap(dim_mapping)]

\* The Selections of the model: dicts from distinct dimension names to
\* member names.
Selections ==
    {s \in SeqsOf(DimNames \X MemberNames, 0, Cardinality(DimNames)) :
        \A i, j \in 1..Len(s) : i # j => s[i][1] # s[j][1]}

(***************************************************************************)
(* SpecCoord: a call of buildCoordinates on any list of Selections; the    *)
(* provider answers the metadata request in any of the ways above.         *)
(***************************************************************************)
InitCoord ==
    /\ series_specs = <<>>
    /\ expanded \in SeqsOf(Selections, 0, MaxSels)
    /\ coordinates = <<>>
    /\ InitCommon

\* meta = getCubeMetadata(pid) raised: the exception goes to the caller.
BuildFails(to) ==
    \E response \in MetaResponses :
        /\ ~getCubeMetadata(response).ok
        /\ metaResp' = response
        /\ calls' = Append(calls, "getCubeMetadata")
        /\ err' = getCubeMetadata(response).err
        /\ pc' = to
        /\ UNCHANGED <<series_specs, expanded, meta, coordinates, dim_map,
                       vecResp, vec_map, vectorIds, dataResp, final_df>>
        /\ UNCHANGED ingestVars

\* meta was returned: the coordinates and the position map are built.
BuildReturns(to) ==
    \E response \in MetaResponses :
        /\ getCubeMetadata(response).ok
        /\ metaResp' = response
        /\ calls' = Append(calls, "getCubeMetadata")
        /\ meta' = getCubeMetadata(response).value
        /\ LET r == buildCoordinates(getCubeMetadata(response).value, expanded)
           IN /\ coordinates' = r.coordinates
              /\ dim_map' = r.dim_map
        /\ pc' = to
        /\ UNCHANGED <<series_specs, expanded, vecResp, vec_map, vectorIds, dataResp,
                       final_df, err>>
        /\ UNCHANGED ingestVars

BuildCallFails ==
    /\ pc = "start"
    /\ BuildFails("failed")

BuildCallReturns ==
    /\ pc = "start"
    /\ BuildReturns("done")

NextCoord == BuildCallFails \/ BuildCallReturns

SpecCoord == InitCoord /\ [][NextCoord]_vars

\* The cube's dimension named k, when it has one.
HasDim(cube, k) == \E i \in 1..Len(cube) : cube[i].dimensionNameEn = k
DimOf(cube, k) == cube[CHOOSE i \in 1..Len(cube) : cube[i].dimensionNameEn = k]

HasMember(dim, v) == \E j \in 1..Len(dim.member) : dim.member[j].memberNameEn = v
MemberIdOf(dim, v) ==
    dim.member[CHOOSE j \in 1..Len(dim.member) : dim.member[j].memberNameEn = v].memberId

\* Every dimension and member the Selection names exists in the cube.
Resolvable(cube, sel) ==
    \A i \in 1..Len(sel) :
        HasDim(cube, sel[i][1]) /\ HasMember(DimOf(cube, sel[i][1]), sel[i][2])

\* The ten slots the Selection stands for: at the position of each
\* dimension it names the selected member's identifier, "0" elsewhere.
ExpectedSlots(cube, sel) ==
    [p \in 1..10 |->
        IF \E i \in 1..Len(sel) : DimOf(cube, sel[i][1]).dimensionPositionId = p
        THEN LET i == CHOOSE i \in 1..Len(sel) :
                          DimOf(cube, sel[i][1]).dimensionPositionId = p
             IN Str(MemberIdOf(DimOf(cube, sel[i][1]), sel[i][2]))
        ELSE <<"0">>]

\* The Selections of a list that are resolvable, in the list's order.
RECURSIVE Survivors(_, _)
Survivors(cube, sels) ==
    IF sels = <<>> THEN <<>>
    ELSE (IF Resolvable(cube, sels[1]) THEN <<sels[1]>> ELSE <<>>)
         \o Survivors(cube, Tail(sels))

\* C2: the coordinate of a Selection whose dimensions and members all exist
\* is 10 dot-joined slots; the slot of each named dimension's position holds
\* the selected member's identifier and every other slot holds "0".
C2_CoordinateSlots ==
    pc = "done" =>
        LET cube == meta.dimension
            kept == Survivors(cube, expanded)
        IN \A j \in 1..Len(kept) :
              /\ j <= Len(coordinates)
              /\ Len(Split(coordinates[j], ".")) = 10
              /\ Split(coordinates[j], ".") = ExpectedSlots(cube, kept[j])

\* {Geography: Quebec} with Geography at position 2: "0.12.0.0.0.0.0.0.0.0".
C2_Witness ==
    /\ pc = "done"
    /\ expanded = << <<<<"Geography", Quebec>>>> >>
    /\ \E i \in 1..Len(meta.dimension) :
          /\ meta.dimension[i].dimensionNameEn = "Geography"
          /\ meta.dimension[i].dimensionPositionId = 2
    /\ coordinates = << <<"0", ".", "1", "2", ".", "0", ".", "0", ".", "0", ".",
                          "0", ".", "0", ".", "0", ".", "0", ".", "0">> >>

\* C3: a Selection naming an absent dimension or member adds no Coordinate
\* and raises nothing (the call fails only when the metadata fetch does);
\* the position map returned is the whole catalogue's, never empty, however
\* many Selections were discarded.
C3_DiscardKeepsPositionMap ==
    /\ pc = "failed" => ~getCubeMetadata(metaResp).ok
    /\ pc = "done" =>
          LET cube == meta.dimension
          IN /\ err = NoError
             /\ Len(coordinates) =
                   Cardinality({j \in 1..Len(expanded) : Resolvable(cube, expanded[j])})
             /\ dim_map # <<>>
             /\ Len(dim_map) = Len(cube)
             /\ \A i \in 1..Len(cube) :
                   /\ HasKey(dim_map, cube[i].dimensionNameEn)
                   /\ Get(dim_map, cube[i].dimensionNameEn) = cube[i].dimensionPositionId

\* Two Selections, one with an absent dimension and one with an absent
\* member: nothing is left, the map is still there.
C3_Witness ==
    /\ pc = "done"
    /\ Len(expanded) = 2
    /\ \E i \in 1..Len(expanded[1]) : ~HasDim(meta.dimension, expanded[1][i][1])
    /\ \E i \in 1..Len(expanded[2]) :
          /\ HasDim(meta.dimension, expanded[2][i][1])
          /\ ~HasMember(DimOf(meta.dimension, expanded[2][i][1]), expanded[2][i][2])
    /\ coordinates = <<>>
    /\ dim_map # <<>>

\* C4: the Coordinates are those of the surviving Selections, one each, in
\* the Selections' order; a discarded Selection leaves nothing behind.
C4_SurvivorsInOrder ==
    pc = "done" =>
        LET cube == meta.dimension
            kept == Survivors(cube, expanded)
        IN /\ Len(coordinates) = Len(kept)
           /\ coordinates =
                 [j \in 1..Len(kept) |-> Join(ExpectedSlots(cube, kept[j]), <<".">>)]

\* A discarded Selection followed by a surviving one: one Coordinate, the
\* second Selection's.
C4_Witness ==
    /\ pc = "done"
    /\ Len(expanded) = 2
    /\ ~Resolvable(meta.dimension, expanded[1])
    /\ Resolvable(meta.dimension, expanded[2])
    /\ expanded[2] # <<>>
    /\ Len(coordinates) = 1

\* C7: getCubeMetadata returns the catalogue only for a 2xx response whose
\* body is a non-empty list with a first item of status SUCCESS; otherwise
\* it raises HTTPError (TransportError) for a non-2xx response, else
\* ValueError (MalformedResponseError) for a body that is no non-empty list,
\* else RuntimeError (ProviderError) carrying the item's status and object;
\* either way the provider was called exactly once.
C7_MetadataOutcome ==
    pc \in {"done", "failed"} =>
        LET http_ok == metaResp.status_code \in 200..299
            shape_ok == metaResp.isList /\ metaResp.items # <<>>
        IN /\ calls = <<"getCubeMetadata">>
           /\ pc = "done" <=>
                 (http_ok /\ shape_ok /\ metaResp.items[1].status = "SUCCESS")
           /\ pc = "done" => meta = metaResp.items[1].object /\ err = NoError
           /\ pc = "failed" =>
                 /\ err.kind = (IF ~http_ok THEN "HTTPError"
                                ELSE IF ~shape_ok THEN "ValueError"
                                ELSE "RuntimeError")
                 /\ err.kind = "RuntimeError" =>
                       /\ err.status = metaResp.items[1].status
                       /\ err.payload = metaResp.items[1].object

\* A 200 response whose item reports a failure.
C7_Witness ==
    /\ pc = "failed"
    /\ metaResp.status_code = 200
    /\ metaResp.isList /\ metaResp.items # <<>>
    /\ metaResp.items[1].status = "FAILED"
    /\ err.kind = "RuntimeError"
    /\ err.payload.note = "Product is invalid"

(***************************************************************************)
(* getVectorIds.  The provider answers a batch of (pid, coordinate) pairs  *)
(* with one item per pair, in order: object.vectorId (0: no such series)   *)
(* and object.SeriesTitleEn.                                               *)
(***************************************************************************)
SeriesInfo(vectorId, title) ==
    [object |-> [vectorId |-> vectorId, SeriesTitleEn |-> title]]

OkMap(m) == [ok |-> TRUE, value |-> m, err |-> NoError]
RaiseNoMap(e) == [ok |-> FALSE, value |-> <<>>, err |-> e]

\* The comprehension's filter inverted: only the null vectors are kept.
VecMapOfNulls(series) ==
    DictFrom(<<>>,
        SelectSeq([i \in 1..Len(series) |->
                      <<series[i].object.vectorId, series[i].object.SeriesTitleEn>>],
                  LAMBDA kv : kv[1] = 0))

\* {s.vectorId: s.SeriesTitleEn for s in series if s.vectorId != 0}
VecMapOf(series) ==
    DictFrom(<<>>,
        SelectSeq([i \in 1..Len(series) |->
                      <<series[i].object.vectorId, series[i].object.SeriesTitleEn>>],
                  LAMBDA kv : kv[1] # 0))

\* getVectorIds for a coordinate list and, when the list is not empty,
\* the series the provider answered with (an empty list raises before the
\* provider is called).
getVectorIds(coords, series) ==
    IF ~(Len(coords) > 0)
    THEN RaiseNoMap(Error("Exception", "Invalid coordinates", "", NoObject))
    ELSE LET vm == VecMapOf(series)
         IN IF vm = <<>>
            THEN RaiseNoMap(Error("Exception", "Failed to retrieve vectors", "",
                                  NoObject))
            ELSE OkMap(vm)

\* The number a slot text stands for.
RECURSIVE Num(_)
Num(text) ==
    IF text = <<>> THEN 0
    ELSE 10 * Num(SubSeq(text, 1, Len(text) - 1))
         + (CHOOSE d \in 0..9 : Digit(d) = text[Len(text)])

\* The provider's identifier of the series at a coordinate: every
\* coordinate of the model gets its own, none gets 0.
RECURSIVE SlotsCode(_)
SlotsCode(slots) ==
    IF slots = <<>> THEN 0 ELSE Num(Head(slots)) + 13 * SlotsCode(Tail(slots))
VectorIdOf(coordinate) == 1 + SlotsCode(Split(coordinate, "."))

\* The title the provider composes for a coordinate of a cube: the names
\* of the members in the non-sentinel slots, in position order, ';'-joined.
FaithfulTitle(cube, coordinate) ==
    LET slots == Split(coordinate, ".")
        named == SelectSeq([p \in 1..Len(slots) |-> p],
                     LAMBDA p : /\ slots[p] # <<"0">>
                                /\ \E i \in 1..Len(cube) :
                                      cube[i].dimensionPositionId = p)
        NameAt(p) ==
            LET dim == cube[CHOOSE i \in 1..Len(cube) : cube[i].dimensionPositionId = p]
                js == {j \in 1..Len(dim.member) : Str(dim.member[j].memberId) = slots[p]}
            IN IF js = {} THEN <<"?">> ELSE dim.member[CHOOSE j \in js : TRUE].memberNameEn
    IN Join([n \in 1..Len(named) |-> NameAt(named[n])], <<";">>)

\* Titles of one and of three tokens, whatever the coordinate.
OtherTitles == {Canada, Import \o <<";">> \o Canada \o <<";">> \o Quebec}

\* What the provider may answer for one coordinate: no such series, or the
\* coordinate's series under the faithful title or another one.
SeriesInfos(cube, coordinate) ==
    {SeriesInfo(0, <<>>)}
    \cup {SeriesInfo(VectorIdOf(coordinate), t) :
            t \in {FaithfulTitle(cube, coordinate)} \cup OtherTitles}

\* The provider's answers to a batch: one per coordinate, in order, the
\* same coordinate answered the same way.
RECURSIVE SeriesResponses(_, _)
SeriesResponses(cube, coords) ==
    IF coords = <<>> THEN {<<>>}
    ELSE LET n == Len(coords)
             c == coords[n]
             earlier == {i \in 1..(n - 1) : coords[i] = c}
         IN UNION {IF earlier = {}
                   THEN {Append(front, info) : info \in SeriesInfos(cube, c)}
                   ELSE {Append(front, front[CHOOSE i \in earlier : TRUE])} :
                   front \in SeriesResponses(cube, SubSeq(coords, 1, n - 1))}

\* The coordinates of the model's direct calls of getVectorIds.
CoordPool ==
    {Join(c, <<".">>) : c \in
        {[p \in 1..NumSlots |-> IF p = 1 THEN g ELSE IF p = 2 THEN t ELSE <<"0">>] :
            g \in {<<"0">>, <<"1">>, <<"1", "2">>}, t \in {<<"0">>, <<"3">>}}}

(***************************************************************************)
(* SpecVec: a call of getVectorIds on any list of coordinates.             *)
(***************************************************************************)
InitVec ==
    /\ series_specs = <<>>
    /\ expanded = <<>>
    /\ coordinates \in SeqsOf(CoordPool, 0, MaxCoords)
    /\ InitCommon

\* coords is empty: the exception is raised and no request is sent.
VecRejects(to) ==
    /\ coordinates = <<>>
    /\ err' = getVectorIds(coordinates, <<>>).err
    /\ pc' = to
    /\ UNCHANGED <<series_specs, expanded, metaResp, meta, coordinates, dim_map,
                   vecResp, vec_map, vectorIds, dataResp, final_df, calls>>
    /\ UNCHANGED ingestVars

\* The provider answered and no vector is usable.
VecFails(to) ==
    /\ coordinates # <<>>
    /\ \E series \in SeriesResponses(meta.dimension, coordinates) :
          /\ ~getVectorIds(coordinates, series).ok
          /\ vecResp' = series
          /\ calls' = Append(calls, "getSeriesInfoFromCubePidCoord")
          /\ err' = getVectorIds(coordinates, series).err
          /\ pc' = to
          /\ UNCHANGED <<series_specs, expanded, metaResp, meta, coordinates,
                         dim_map, vec_map, vectorIds, dataResp, final_df>>
          /\ UNCHANGED ingestVars

\* The provider answered and vec_map is returned.
VecReturns(to) ==
    /\ coordinates # <<>>
    /\ \E series \in SeriesResponses(meta.dimension, coordinates) :
          /\ getVectorIds(coordinates, series).ok
          /\ vecResp' = series
          /\ calls' = Append(calls, "getSeriesInfoFromCubePidCoord")
          /\ vec_map' = getVectorIds(coordinates, series).value
          /\ pc' = to
          /\ UNCHANGED <<series_specs, expanded, metaResp, meta, coordinates,
                         dim_map, vectorIds, dataResp, final_df, err>>
          /\ UNCHANGED ingestVars

VecCallRejects ==
    /\ pc = "start"
    /\ VecRejects("failed")

VecCallFails ==
    /\ pc = "start"
    /\ VecFails("failed")

VecCallReturns ==
    /\ pc = "start"
    /\ VecReturns("done")

NextVec == VecCallRejects \/ VecCallFails \/ VecCallReturns

SpecVec == InitVec /\ [][NextVec]_vars

\* C5 (as claimed): an empty Coordinate list fails before any provider
\* lookup, a non-empty list whose Coordinates all resolve to vectorId 0
\* fails too, and the second failure is of another error kind than the
\* first.
C5_DistinctErrorKinds ==
    pc = "failed" =>
        /\ coordinates = <<>> => calls = <<>>
        /\ coordinates # <<>> =>
              /\ \A i \in 1..Len(vecResp) : vecResp[i].object.vectorId = 0
              /\ err.kind # getVectorIds(<<>>, <<>>).err.kind

\* C6: vec_map holds exactly the provider's answers with a vectorId other
\* than 0, identifier and title unchanged, one entry per Coordinate that
\* resolved and none for a Coordinate that resolved to 0.
C6_VectorsAreTheResolved ==
    pc = "done" =>
        LET usable == {i \in 1..Len(vecResp) : vecResp[i].object.vectorId # 0}
            resolved == {coordinates[i] : i \in usable}
        IN /\ Range(vec_map) =
                 {<<vecResp[i].object.vectorId, vecResp[i].object.SeriesTitleEn>> :
                     i \in usable}
           /\ Cardinality(Range(Keys(vec_map))) = Len(vec_map)
           /\ Len(vec_map) = Cardinality(resolved)
           /\ \A i \in 1..Len(vecResp) :
                 HasKey(vec_map, vecResp[i].object.vectorId) <=> i \in usable

\* Two Coordinates, the first resolving to 0 and the second to a vector.
C6_Witness ==
    /\ pc = "done"
    /\ Len(coordinates) = 2
    /\ vecResp[1].object.vectorId = 0
    /\ vecResp[2].object.vectorId # 0
    /\ vec_map = <<<<vecResp[2].object.vectorId, vecResp[2].object.SeriesTitleEn>>>>

(***************************************************************************)
(* getTableData.  The provider answers the observation request with one    *)
(* item per requested vector: object.vectorId and object.vectorDataPoint,  *)
(* a list of (refPer, value).                                              *)
(***************************************************************************)
DataPoint(refPer, value) == [refPer |-> refPer, value |-> value]

SeriesData(vectorId, points) ==
    [object |-> [vectorId |-> vectorId, vectorDataPoint |-> points]]

\* The j-th reference period of the requested range.
RefPer(j) == [year |-> 2020, month |-> j]

\* The observation lists of the model: the first n periods of the range,
\* 100.0 in the first and 10.0 more in each later one.
ObsLists ==
    {[j \in 1..n |-> DataPoint(RefPer(j), 90 + 10 * j)] : n \in 0..MaxObs}

\* What the provider may answer to the observation request.
DataResponses(vIds) ==
    {[i \in 1..Len(vIds) |-> SeriesData(vIds[i], pts[i])] :
        pts \in [1..Len(vIds) -> ObsLists]}

\* dim_map.get(col, float("inf")): a position is at most NumSlots.
SortKey(dm, col) == IF HasKey(dm, col) THEN Get(dm, col) ELSE NumSlots + 1

\* list.sort(key=...): stable, ascending.
RECURSIVE SortByPosition(_, _)
SortByPosition(cols, dm) ==
    IF cols = <<>> THEN <<>>
    ELSE LET rest == SortByPosition(SubSeq(cols, 1, Len(cols) - 1), dm)
             x == cols[Len(cols)]
             n == Cardinality({i \in 1..Len(rest) :
                                   SortKey(dm, rest[i]) <= SortKey(dm, x)})
         IN SubSeq(rest, 1, n) \o <<x>> \o SubSeq(rest, n + 1, Len(rest))

\* The columns left in the order of the specs.
IndexColsUnsorted(specs, dm) == [i \in 1..Len(specs) |-> specs[i].k]

\* index_cols: the first key of every spec, sorted by catalogue position.
IndexCols(specs, dm) ==
    SortByPosition([i \in 1..Len(specs) |-> specs[i].k], dm)

\* row_index = {k: v for k, v in zip(index_cols, index_vals) if k in dim_map}
RowIndex(index_cols, index_vals, dm) ==
    DictFrom(<<>>, SelectSeq(Zip(index_cols, index_vals),
                             LAMBDA kv : HasKey(dm, kv[1])))

\* row = row_index | {"REF_DATE": ref_date, "VALUE": value}
Row(row_index, pt) == [index |-> row_index, REF_DATE |-> pt.refPer, VALUE |-> pt.value]

\* The rows of one series payload.
RowsOf(specs, dm, vm, s) ==
    LET vId == s.object.vectorId
        index_cols == IndexCols(specs, dm)
        index_vals == Split(Get(vm, vId), ";")
        row_index == RowIndex(index_cols, index_vals, dm)
        dataPoints == s.object.vectorDataPoint
    IN [j \in 1..Len(dataPoints) |-> Row(row_index, dataPoints[j])]

\* final_df replaced by each series' frame instead of concatenated to it.
RECURSIVE AssembleKeepsLast(_, _, _, _, _)
AssembleKeepsLast(df, specs, dm, vm, series) ==
    IF series = <<>> THEN df
    ELSE AssembleKeepsLast(DataFrame(RowsOf(specs, dm, vm, series[1])),
                           specs, dm, vm, Tail(series))

\* The loop over the series: final_df = pd.concat([final_df, df]).
RECURSIVE Assemble(_, _, _, _, _)
Assemble(df, specs, dm, vm, series) ==
    IF series = <<>> THEN df
    ELSE Assemble(DataFrame(df.rows \o RowsOf(specs, dm, vm, series[1])),
                  specs, dm, vm, Tail(series))

\* The observation request for vec_map's keys and the assembly of the
\* provider's answer.
FetchStep(to) ==
    \E series \in DataResponses(Keys(vec_map)) :
        /\ vectorIds' = Keys(vec_map)
        /\ dataResp' = series
        /\ calls' = Append(calls, "getDataFromVectorByReferencePeriodRange")
        /\ final_df' = Assemble(NoneDF, series_specs, dim_map, vec_map, series)
        /\ pc' = to
        /\ UNCHANGED <<series_specs, expanded, metaResp, meta, coordinates,
                       dim_map, vecResp, vec_map, err>>
        /\ UNCHANGED ingestVars

(***************************************************************************)
(* Spec: a call of getTableData on any compact spec that stands for at     *)
(* most MaxSels Selections.                                                *)
(***************************************************************************)
TableSpecs == {s \in CompactSpecs : Len(expand_specs(s)) <= MaxSels}

Init ==
    /\ series_specs \in TableSpecs
    /\ expanded = <<>>
    /\ coordinates = <<>>
    /\ InitCommon

Expand ==
    /\ pc = "start"
    /\ ExpandStep("expanded")

BuildFailure ==
    /\ pc = "expanded"
    /\ BuildFails("failed")

Build ==
    /\ pc = "expanded"
    /\ BuildReturns("built")

ResolveRejected ==
    /\ pc = "built"
    /\ VecRejects("failed")

\* The resolver's exception swallowed: the call goes on without a vector.
ResolveFailureSwallowed ==
    /\ pc = "built"
    /\ VecFails("resolved")

ResolveFailure ==
    /\ pc = "built"
    /\ VecFails("failed")

Resolve ==
    /\ pc = "built"
    /\ VecReturns("resolved")

Fetch ==
    /\ pc = "resolved"
    /\ FetchStep("done")

Next ==
    \/ Expand
    \/ BuildFailure
    \/ Build
    \/ ResolveRejected
    \/ ResolveFailure
    \/ Resolve
    \/ Fetch

Spec == Init /\ [][Next]_vars

\* The requested dimensions in the order of their catalogue positions: the
\* k-th is the one with k-1 requested dimensions at smaller positions.
ColsByPosition ==
    LET cube == meta.dimension
        req == {series_specs[i].k : i \in 1..Len(series_specs)}
    IN [k \in 1..Cardinality(req) |->
          CHOOSE d \in req :
              Cardinality({e \in req : DimOf(cube, e).dimensionPositionId
                                         < DimOf(cube, d).dimensionPositionId}) = k - 1]

\* The number of rows the series before the n-th one contributed.
RECURSIVE RowsBefore(_)
RowsBefore(n) ==
    IF n <= 1 THEN 0
    ELSE RowsBefore(n - 1) + Len(dataResp[n - 1].object.vectorDataPoint)

\* The title the resolver was given for a vector.
TitleOf(vId) ==
    vecResp[CHOOSE i \in 1..Len(vecResp) : vecResp[i].object.vectorId = vId]
        .object.SeriesTitleEn

\* C8: for every returned vector, the k-th ';'-token of its title labels the
\* requested dimension with the k-th smallest catalogue position, whatever
\* the order of the specs, and the vector contributes one row per
\* observation, each with these labels and the observation's date and value.
C8_TitleTokensByPosition ==
    pc = "done" =>
        /\ ~final_df.isNone
        /\ Len(final_df.rows) = RowsBefore(Len(dataResp) + 1)
        /\ \A n \in 1..Len(dataResp) :
              LET points == dataResp[n].object.vectorDataPoint
                  tokens == Split(TitleOf(dataResp[n].object.vectorId), ";")
              IN \A j \in 1..Len(points) :
                    LET row == final_df.rows[RowsBefore(n) + j]
                    IN /\ row.REF_DATE = points[j].refPer
                       /\ row.VALUE = points[j].value
                       /\ Len(row.index) = Min(Len(tokens), Len(ColsByPosition))
                       /\ \A k \in 1..Min(Len(tokens), Len(ColsByPosition)) :
                             /\ HasKey(row.index, ColsByPosition[k])
                             /\ Get(row.index, ColsByPosition[k]) = tokens[k]

\* Trade asked for before Geography, Geography at position 1 and Trade at
\* 2, title "Ca;Im", two observations: two rows Geography=Ca, Trade=Im.
C8_Witness ==
    /\ pc = "done"
    /\ Len(series_specs) = 2
    /\ series_specs[1].k = "Trade" /\ series_specs[2].k = "Geography"
    /\ Get(dim_map, "Geography") = 1 /\ Get(dim_map, "Trade") = 2
    /\ Len(dataResp) = 1
    /\ TitleOf(dataResp[1].object.vectorId) = Canada \o <<";">> \o Import
    /\ Len(final_df.rows) = 2
    /\ \A j \in 1..2 :
          /\ Get(final_df.rows[j].index, "Geography") = Canada
          /\ Get(final_df.rows[j].index, "Trade") = Import
          /\ final_df.rows[j].REF_DATE = RefPer(j)

\* C9 (as claimed): a title whose token count differs from the number of
\* expected dimension columns makes getTableData fail instead of emitting a
\* partial row, so every row of a table it returns has a label for every
\* requested dimension column.
C9_TitleAlignmentEnforced ==
    pc = "done" =>
        \A r \in 1..Len(final_df.rows) :
            \A i \in 1..Len(series_specs) :
                HasKey(final_df.rows[r].index, series_specs[i].k)

\* Every usable answer of the resolver carries the title the provider
\* composes for the coordinate, and every vector has at most one
\* observation per reference period.
ProviderFaithful ==
    /\ \A i \in 1..Len(vecResp) :
          vecResp[i].object.vectorId # 0 =>
              vecResp[i].object.SeriesTitleEn
                  = FaithfulTitle(meta.dimension, coordinates[i])
    /\ \A n \in 1..Len(dataResp) :
          LET points == dataResp[n].object.vectorDataPoint
          IN \A j, l \in 1..Len(points) : j # l => points[j].refPer # points[l].refPer

\* The rows whose labels are the Selection's values, as (date, value).
FilterTo(rows, sel) ==
    LET hit == SelectSeq(rows, LAMBDA row :
                   \A i \in 1..Len(sel) :
                       /\ HasKey(row.index, sel[i][1])
                       /\ Get(row.index, sel[i][1]) = sel[i][2])
    IN [j \in 1..Len(hit) |-> DataPoint(hit[j].REF_DATE, hit[j].VALUE)]

\* C10: the tidy table filtered to one Selection's dimension values is the
\* observation list the provider returned for that Selection's vector: no
\* row of another vector, none missing, the provider's order, no duplicate.
C10_RoundTrip ==
    (pc = "done" /\ ProviderFaithful) =>
        LET kept == Survivors(meta.dimension, expanded)
        IN \A i \in 1..Len(kept) :
              vecResp[i].object.vectorId # 0 =>
                 LET n == CHOOSE n \in 1..Len(dataResp) :
                              dataResp[n].object.vectorId = vecResp[i].object.vectorId
                     got == FilterTo(final_df.rows, kept[i])
                 IN /\ got = dataResp[n].object.vectorDataPoint
                    /\ \A j, l \in 1..Len(got) : j # l => got[j] # got[l]

\* Two Selections resolved to two vectors with two observations each, the
\* same values in both: the filter has to tell them apart by the labels.
C10_Witness ==
    /\ pc = "done"
    /\ ProviderFaithful
    /\ Len(series_specs) = 2
    /\ Len(expanded) = 2
    /\ expanded[1] # expanded[2]
    /\ Len(dataResp) = 2
    /\ Len(dataResp[1].object.vectorDataPoint) = 2
    /\ dataResp[1].object.vectorDataPoint = dataResp[2].object.vectorDataPoint
    /\ Len(final_df.rows) = 4
    /\ FilterTo(final_df.rows, expanded[2]) = dataResp[2].object.vectorDataPoint

\* The three provider endpoints of one getTableData call, in the order of
\* the chain.
ProviderChain ==
    <<"getCubeMetadata", "getSeriesInfoFromCubePidCoord",
      "getDataFromVectorByReferencePeriodRange">>

\* The metadata answer is one getCubeMetadata accepts, judged on the answer
\* itself.
MetadataSucceeded ==
    /\ metaResp.status_code = 200
    /\ metaResp.isList
    /\ metaResp.items # <<>>
    /\ metaResp.items[1].status = "SUCCESS"

\* The identifiers the resolver returned: those of its answers other than 0.
ResolvedIds ==
    {vecResp[i].object.vectorId : i \in {j \in 1..Len(vecResp) :
                                            vecResp[j].object.vectorId # 0}}

\* C11: within one getTableData call the provider is called in the order
\* metadata fetch, coordinate-to-vector resolution, observation retrieval,
\* each only after the one before succeeded; a metadata error or a resolver
\* error ends the call (no step follows it) with no later provider call and
\* no table; and the observation request names exactly the set of vector
\* identifiers the resolver returned.
C11_ChainInOrder ==
    /\ [](/\ Len(calls) <= Len(ProviderChain)
          /\ calls = SubSeq(ProviderChain, 1, Len(calls))
          /\ Len(calls) >= 2 => MetadataSucceeded
          /\ Len(calls) >= 3 =>
                /\ ResolvedIds # {}
                /\ Range(vectorIds) = ResolvedIds
                /\ Len(vectorIds) = Cardinality(ResolvedIds)
                /\ Range(vectorIds) = {dataResp[n].object.vectorId :
                                          n \in 1..Len(dataResp)}
          /\ Len(calls) < 3 => vectorIds = <<>> /\ dataResp = <<>>
          /\ (Len(calls) >= 1 /\ ~MetadataSucceeded) =>
                pc = "failed" /\ err # NoError /\ Len(calls) = 1
          /\ (Len(calls) >= 2 /\ ResolvedIds = {}) =>
                pc = "failed" /\ err # NoError /\ Len(calls) = 2
          /\ (pc = "failed" \/ err # NoError) =>
                pc = "failed" /\ err # NoError /\ final_df.isNone)
    /\ [][/\ err = NoError
          /\ Len(calls') <= Len(calls) + 1
          /\ SubSeq(calls', 1, Len(calls)) = calls]_vars

\* A call that went through the whole chain: two Coordinates, the resolver
\* answered 0 for the first and a vector for the second, and the
\* observation request named that one vector.
C11_Witness ==
    /\ pc = "done"
    /\ calls = ProviderChain
    /\ Len(coordinates) = 2
    /\ vecResp[1].object.vectorId = 0
    /\ vecResp[2].object.vectorId # 0
    /\ vectorIds = <<vecResp[2].object.vectorId>>
    /\ ~final_df.isNone

\* The coordinate with the sentinel in every slot: "0.0.0.0.0.0.0.0.0.0".
AllSentinel == Join([p \in 1..NumSlots |-> <<"0">>], <<".">>)

\* C14 (as claimed): buildCoordinates never produces the all-sentinel
\* coordinate and getTableData never submits it to vector resolution,
\* whatever the compact spec, the empty spec list (whose expansion is one
\* empty Selection) included.  coordinates is both what buildCoordinates
\* returned and what getTableData hands to getVectorIds.
C14_NoAllSentinelCoordinate ==
    \A i \in 1..Len(coordinates) : coordinates[i] # AllSentinel

(***************************************************************************)
(* The domain adapters (src/ingestion/wds_data.py).  A date is the number  *)
(* yyyymmdd, so that dates compare as pd.to_datetime values do.            *)
(***************************************************************************)
MaxDays == 2      \* days of the model on each side of the era boundary

\* pd.to_datetime("2017-01-01"): the first day of the current era.
EraBoundary == 20170101

\* pd.to_datetime("2016-12-31"): the last day asked of the archived trade cube.
ArchivedTradeEnd == 20161231

\* The end of a request without an end_date: later than every date.
OpenEnd == 99991231

\* The productIds of the two trade cubes, as the text that goes into a request.
CURRENT_PID == "12100168"
ARCHIVED_PID == "12100128"

Max(a, b) == IF a > b THEN a ELSE b

\* The last MaxDays days of December 2016 and the first MaxDays + 1 days of
\* January 2017.
Dates ==
    {ArchivedTradeEnd - d : d \in 0..(MaxDays - 1)}
    \cup {EraBoundary + d : d \in 0..MaxDays}

\* The ranges [startDate, endDate] of the model.
DateRanges == {r \in Dates \X Dates : r[1] <= r[2]}

\* One request to a source: the era it belongs to, the series, group or
\* cube asked, and the range asked.
Request(era, source, s, e) ==
    [era |-> era, source |-> source, startDate |-> s, endDate |-> e]

\* What an adapter did: the table it returned (isNone: None) or the
\* exception it raised, and the requests it made.
Returned(isNone, reqs) ==
    [ok |-> TRUE, isNone |-> isNone, requests |-> reqs, err |-> NoError]
Raised(e, reqs) ==
    [ok |-> FALSE, isNone |-> TRUE, requests |-> reqs, err |-> e]

\* What a source may do with a request: answer with data, answer with
\* nothing (pd.errors.EmptyDataError), or fail otherwise.
FxOutcomes == {"data", "empty", "error"}

\* What a call of getTableData may do: return a table or raise.
TableOutcomes == {"data", "error"}

\* codes.get("legacy") / codes.get("current"): a dict, read for its keys.
Codes(keys) == [isNone |-> FALSE, keys |-> keys]

\* config.FX_CODES and what a caller may hand over in its place.
FX_CODES ==
    [legacy |-> Codes(<<"IEXM0102_AVG", "EUROCAM01">>),
     current |-> Codes(<<"FXMUSDCAD", "FXMEURCAD">>)]

FxCodes ==
    [legacy : {NoCodes, Codes(<<>>), Codes(<<"IEXM0102_AVG">>), FX_CODES.legacy},
     current : {NoCodes, FX_CODES.current}]

\* The loop over the legacy codes: one request per code; fx_df starts as
\* None, takes the first frame, and merges the later ones.
RECURSIVE LegacyLoop(_, _, _, _, _, _)
LegacyLoop(keys, outcomes, s, e, fxNone, reqs) ==
    IF keys = <<>> THEN Returned(fxNone, reqs)
    ELSE LET made == Append(reqs, Request("legacy", keys[1], s, e))
             dfNone == outcomes[1] = "empty"
         IN IF outcomes[1] = "error"
            THEN Raised(Error("HTTPError", "", "", NoObject), made)
            ELSE IF ~fxNone /\ dfNone
            THEN Raised(Error("TypeError", "Can only merge Series or DataFrame",
                              "", NoObject), made)
            ELSE LegacyLoop(Tail(keys), Tail(outcomes), s, e,
                            IF fxNone THEN dfNone ELSE FALSE, made)

get_legacy_fx_data(cs, s, e, outcomes) ==
    IF cs.isNone THEN Returned(TRUE, <<>>)
    ELSE IF s >= EraBoundary THEN Returned(TRUE, <<>>)
    ELSE LegacyLoop(cs.keys, outcomes, s, Min(e, EraBoundary), TRUE, <<>>)

get_current_fx_data(cs, s, e, outcome) ==
    IF cs.isNone THEN Returned(TRUE, <<>>)
    ELSE IF e < EraBoundary THEN Returned(TRUE, <<>>)
    ELSE LET made == <<Request("current", "group/FX_RATES_MONTHLY",
                               Max(s, EraBoundary), OpenEnd)>>
         IN IF outcome = "error"
            THEN Raised(Error("HTTPError", "", "", NoObject), made)
            ELSE Returned(outcome = "empty", made)

\* pd.concat([a, b]): None objects are dropped, all None raises.
Concat(a, b, reqs) ==
    IF a.isNone /\ b.isNone
    THEN Raised(Error("ValueError", "All objects passed were None", "", NoObject),
                reqs)
    ELSE Returned(FALSE, reqs)

get_fx_data(cds, s, e, legacyOutcomes, currentOutcome) ==
    LET legacy == get_legacy_fx_data(cds.legacy, s, e, legacyOutcomes)
    IN IF ~legacy.ok THEN legacy
       ELSE LET current == get_current_fx_data(cds.current, s, e, currentOutcome)
                reqs == legacy.requests \o current.requests
            IN IF ~current.ok THEN Raised(current.err, reqs)
               ELSE Concat(legacy, current, reqs)

\* get_trade_data's helper fetch_data: one call of getTableData.
fetch_data(era, pid, s, e, outcome) ==
    LET made == <<Request(era, pid, s, e)>>
    IN IF outcome = "error"
       THEN Raised(Error("Exception", "", "", NoObject), made)
       ELSE Returned(FALSE, made)

get_trade_data(s, e, archivedOutcome, currentOutcome) ==
    LET archived ==
            IF s < EraBoundary
            THEN fetch_data("legacy", ARCHIVED_PID, s, Min(e, ArchivedTradeEnd),
                            archivedOutcome)
            ELSE Returned(TRUE, <<>>)
    IN IF ~archived.ok THEN archived
       ELSE LET current ==
                    IF e >= EraBoundary
                    THEN fetch_data("current", CURRENT_PID, Max(s, EraBoundary), e,
                                    currentOutcome)
                    ELSE Returned(TRUE, <<>>)
                reqs == archived.requests \o current.requests
            IN IF ~current.ok THEN Raised(current.err, reqs)
               ELSE Concat(archived, current, reqs)

(***************************************************************************)
(* SpecEras: one call of get_fx_data or of get_trade_data on any range of  *)
(* the model; the sources answer each request in any of their ways.        *)
(***************************************************************************)
\* The variables of the client, which the ingestion layer reaches only
\* through getTableData.
coreVars == <<series_specs, expanded, metaResp, meta, coordinates, dim_map,
              vecResp, vec_map, vectorIds, dataResp, final_df, calls>>

\* No call of the client is under way.
CoreIdle ==
    /\ series_specs = <<>>
    /\ expanded = <<>>
    /\ coordinates = <<>>
    /\ metaResp = NoResponse
    /\ meta = NoObject
    /\ dim_map = <<>>
    /\ vecResp = <<>>
    /\ vec_map = <<>>
    /\ vectorIds = <<>>
    /\ dataResp = <<>>
    /\ final_df = NoneDF
    /\ calls = <<>>

InitEras ==
    /\ pc \in {"get_fx_data", "get_trade_data"}
    /\ \E r \in DateRanges : startDate = r[1] /\ endDate = r[2]
    /\ codes \in IF pc = "get_fx_data" THEN FxCodes
                 ELSE {[legacy |-> NoCodes, current |-> NoCodes]}
    /\ mode = ""
    /\ requests = <<>>
    /\ loaded = <<>>
    /\ err = NoError
    /\ CoreIdle

\* The adapter returned r.
AdapterReturns(r, to) ==
    /\ r.ok
    /\ requests' = requests \o r.requests
    /\ pc' = to
    /\ UNCHANGED <<mode, startDate, endDate, codes, loaded, err>>
    /\ UNCHANGED coreVars

\* The adapter raised r.err.
AdapterFails(r, to) ==
    /\ ~r.ok
    /\ requests' = requests \o r.requests
    /\ err' = r.err
    /\ pc' = to
    /\ UNCHANGED <<mode, startDate, endDate, codes, loaded>>
    /\ UNCHANGED coreVars

\* The answers the FX sources may give to one call of get_fx_data.
FxAnswers == [legacy : [1..2 -> FxOutcomes], current : FxOutcomes]

\* The outcomes of the two calls of getTableData in get_trade_data.
TradeAnswers == [archived : TableOutcomes, current : TableOutcomes]

GetFxDataReturns ==
    /\ pc = "get_fx_data"
    /\ \E a \in FxAnswers :
          AdapterReturns(get_fx_data(codes, startDate, endDate, a.legacy, a.current),
                         "done")

GetFxDataFails ==
    /\ pc = "get_fx_data"
    /\ \E a \in FxAnswers :
          AdapterFails(get_fx_data(codes, startDate, endDate, a.legacy, a.current),
                       "failed")

GetTradeDataReturns ==
    /\ pc = "get_trade_data"
    /\ \E a \in TradeAnswers :
          AdapterReturns(get_trade_data(startDate, endDate, a.archived, a.current),
                         "done")

GetTradeDataFails ==
    /\ pc = "get_trade_data"
    /\ \E a \in TradeAnswers :
          AdapterFails(get_trade_data(startDate, endDate, a.archived, a.current),
                       "failed")

NextEras ==
    \/ GetFxDataReturns
    \/ GetFxDataFails
    \/ GetTradeDataReturns
    \/ GetTradeDataFails

SpecEras == InitEras /\ [][NextEras]_vars

\* The date d lies in the range a request asks for.
Asks(req, d) == req.startDate <= d /\ d <= req.endDate

\* C12 (as claimed): the legacy source is queried only when the range
\* starts before 2017-01-01 and the current source only when it ends on or
\* after it, and no date, the boundary date 2017-01-01 included, is asked
\* of both the legacy and the current source.
C12_ErasDisjoint ==
    \A i, j \in 1..Len(requests) :
        /\ requests[i].era = "legacy" => startDate < EraBoundary
        /\ requests[i].era = "current" => endDate >= EraBoundary
        /\ (requests[i].era = "legacy" /\ requests[j].era = "current") =>
              \A d \in Dates : ~(Asks(requests[i], d) /\ Asks(requests[j], d))

(***************************************************************************)
(* ingest_data (src/ingestion/ingest.py) and load_data                     *)
(* (src/ingestion/dbdata.py).                                              *)
(***************************************************************************)
\* The adapters of the datasets of one cube: one call of getTableData for
\* the whole range.
get_labour_force_data(s, e, outcome) == fetch_data("single", "14100287", s, e, outcome)
get_fuel_price_data(s, e, outcome) == fetch_data("single", "18100001", s, e, outcome)
get_cpi_data(s, e, outcome) == fetch_data("single", "18100006", s, e, outcome)

\* What df.to_sql may do in load_data: write the table, or raise (the
\* exception is logged and raised again).
LoadOutcomes == {"ok", "error"}

\* The tables of the five datasets, in the order ingest_data loads them.
Tables ==
    <<"foreign_exchange", "labour_force_status", "fuel_price", "trade_index",
      "food_cpi">>

\* The sources a dataset's adapter asks.
SourcesOf(table) ==
    CASE table = "foreign_exchange" ->
             Range(FX_CODES.legacy.keys) \cup {"group/FX_RATES_MONTHLY"}
      [] table = "labour_force_status" -> {"14100287"}
      [] table = "fuel_price" -> {"18100001"}
      [] table = "trade_index" -> {ARCHIVED_PID, CURRENT_PID}
      [] table = "food_cpi" -> {"18100006"}

InitIngest ==
    /\ pc = "ingest_data"
    /\ mode \in {"create", "update", "replace"}
    /\ \E r \in DateRanges : startDate = r[1] /\ endDate = r[2]
    /\ codes = FX_CODES
    /\ requests = <<>>
    /\ loaded = <<>>
    /\ err = NoError
    /\ CoreIdle

\* mode is neither "create" nor "update".
IngestRejectsMode ==
    /\ pc = "ingest_data"
    /\ mode # "create" /\ mode # "update"
    /\ err' = Error("ValueError", "Expected 'create' or 'update'", "", NoObject)
    /\ pc' = "rejected"
    /\ UNCHANGED <<mode, startDate, endDate, codes, requests, loaded>>
    /\ UNCHANGED coreVars

\* create_tables raised (the DDL file cannot be read or run).
CreateTablesFails ==
    /\ pc = "ingest_data"
    /\ mode = "create"
    /\ err' = Error("Exception", "create_tables", "", NoObject)
    /\ pc' = "rejected"
    /\ UNCHANGED <<mode, startDate, endDate, codes, requests, loaded>>
    /\ UNCHANGED coreVars

\* The engine is there and, in mode "create", the tables are.
IngestPrepares ==
    /\ pc = "ingest_data"
    /\ mode = "create" \/ mode = "update"
    /\ pc' = "load_fx_data"
    /\ UNCHANGED <<mode, startDate, endDate, codes, requests, loaded, err>>
    /\ UNCHANGED coreVars

\* load_<dataset>_data: the adapter returned r and load_data wrote the table.
LoadReturns(r, table, to) ==
    /\ r.ok
    /\ requests' = requests \o r.requests
    /\ loaded' = Append(loaded, table)
    /\ pc' = to
    /\ UNCHANGED <<mode, startDate, endDate, codes, err>>
    /\ UNCHANGED coreVars

\* load_<dataset>_data: the adapter raised, or it returned and load_data
\* raised; either exception leaves ingest_data.
LoadFails(r, to) ==
    /\ requests' = requests \o r.requests
    /\ err' = IF r.ok THEN Error("SQLAlchemyError", "Error inserting data", "",
                                 NoObject)
              ELSE r.err
    /\ pc' = to
    /\ UNCHANGED <<mode, startDate, endDate, codes, loaded>>
    /\ UNCHANGED coreVars

LoadFx ==
    /\ pc = "load_fx_data"
    /\ \E a \in FxAnswers :
          LoadReturns(get_fx_data(codes, startDate, endDate, a.legacy, a.current),
                      Tables[1], "load_labour_data")

LoadFxFails ==
    /\ pc = "load_fx_data"
    /\ \E a \in FxAnswers :
          LoadFails(get_fx_data(codes, startDate, endDate, a.legacy, a.current),
                    "failed")

LoadLabour ==
    /\ pc = "load_labour_data"
    /\ \E o \in TableOutcomes :
          LoadReturns(get_labour_force_data(startDate, endDate, o),
                      Tables[2], "load_fuel_data")

LoadLabourFails ==
    /\ pc = "load_labour_data"
    /\ \E o \in TableOutcomes :
          LoadFails(get_labour_force_data(startDate, endDate, o), "failed")

LoadFuel ==
    /\ pc = "load_fuel_data"
    /\ \E o \in TableOutcomes :
          LoadReturns(get_fuel_price_data(startDate, endDate, o),
                      Tables[3], "load_trade_data")

LoadFuelFails ==
    /\ pc = "load_fuel_data"
    /\ \E o \in TableOutcomes :
          LoadFails(get_fuel_price_data(startDate, endDate, o), "failed")

LoadTrade ==
    /\ pc = "load_trade_data"
    /\ \E a \in TradeAnswers :
          LoadReturns(get_trade_data(startDate, endDate, a.archived, a.current),
                      Tables[4], "load_cpi_data")

LoadTradeFails ==
    /\ pc = "load_trade_data"
    /\ \E a \in TradeAnswers :
          LoadFails(get_trade_data(startDate, endDate, a.archived, a.current),
                    "failed")

LoadCpi ==
    /\ pc = "load_cpi_data"
    /\ \E o \in TableOutcomes :
          LoadReturns(get_cpi_data(startDate, endDate, o), Tables[5], "done")

LoadCpiFails ==
    /\ pc = "load_cpi_data"
    /\ \E o \in TableOutcomes :
          LoadFails(get_cpi_data(startDate, endDate, o), "failed")

NextIngest ==
    \/ IngestRejectsMode
    \/ CreateTablesFails
    \/ IngestPrepares
    \/ LoadFx
    \/ LoadFxFails
    \/ LoadLabour
    \/ LoadLabourFails
    \/ LoadFuel
    \/ LoadFuelFails
    \/ LoadTrade
    \/ LoadTradeFails
    \/ LoadCpi
    \/ LoadCpiFails

SpecIngest == InitIngest /\ [][NextIngest]_vars

\* The dataset's adapter was called: one of its sources was asked.
Fetched(table) ==
    \E i \in 1..Len(requests) : requests[i].source \in SourcesOf(table)

\* C13 (as claimed): the five datasets complete or fail independently: when
\* a run of ingest_data that got as far as the datasets has ended, by the
\* failure of one dataset or not, every dataset has been fetched.
C13_DatasetsIndependent ==
    pc \in {"done", "failed"} => \A n \in 1..Len(Tables) : Fetched(Tables[n])

====
